---- MODULE Spec2Model ----
(***************************************************************************)
(* State-machine model of report_generator.py: the sample-data bootstrap,  *)
(* the CSV loader, the aggregation, the chart renderer, the PDF composer   *)
(* and main, which sequences them.                                         *)
(*                                                                         *)
(* Numbers are Python floats.  A float is modelled as a binary floating    *)
(* point number with Precision significant bits whose smallest step is     *)
(* 2^-FracBits: the value x is held as the integer x * Unit, and every     *)
(* arithmetic operation rounds its exact result to the nearest             *)
(* representable value, ties to even, as IEEE-754 does.                    *)
(***************************************************************************)
EXTENDS Integers, Sequences, FiniteSets, TLC

\* ------------------------------------------------------------------ bounds
Precision == 15      \* significant bits of a float (53 in CPython)
FracBits == 4        \* the smallest positive float is 2^-FracBits
MaxRows == 2         \* rows of an input file other than the built-in sample
MaxData == 3         \* records of a dataset handed to perform_analysis directly
MaxRuns == 2         \* runs of main in one behaviour

Unit == 2^FracBits
Amt(n) == n * Unit

\* ------------------------------------------------------------------ floats
Abs(x) == IF x < 0 THEN 0 - x ELSE x

RECURSIVE Shift(_)
\* The number of low bits an integer magnitude q loses to fit Precision bits.
Shift(q) == IF q < 2^Precision THEN 0 ELSE 1 + Shift(q \div 2)

\* Round the non-negative rational a/den to Precision bits, ties to even.
RoundMag(a, den) ==
    LET k == Shift(a \div den)
        d == den * 2^k
        m == a \div d
        r == a % d
        up == (2 * r > d) \/ (2 * r = d /\ m % 2 = 1)
    IN  (IF up THEN m + 1 ELSE m) * 2^k

\* The float nearest to num/den (den # 0), in units.
FRound(num, den) ==
    IF (num < 0) = (den < 0) \/ num = 0
    THEN RoundMag(Abs(num), Abs(den))
    ELSE 0 - RoundMag(Abs(num), Abs(den))

FAdd(a, b) == FRound(a + b, 1)
FSub(a, b) == FRound(a - b, 1)
FMul(a, b) == FRound(a * b, Unit)
FDiv(a, b) == FRound(a * Unit, b)

\* Python's sum() up to 3.11: a left-to-right fold of float additions, from
\* the int 0.
RECURSIVE SumNaive(_, _)
SumNaive(acc, xs) ==
    IF xs = << >> THEN acc ELSE SumNaive(FAdd(acc, Head(xs)), Tail(xs))

\* Python's sum() from 3.12 on: Neumaier's compensated summation, s the
\* running sum and c the running compensation.
RECURSIVE SumComp(_, _, _)
SumComp(s, c, xs) ==
    IF xs = << >>
    THEN IF c # 0 THEN FAdd(s, c) ELSE s
    ELSE LET x == Head(xs)
             t == FAdd(s, x)
             e == IF Abs(s) >= Abs(x)
                  THEN FAdd(FSub(s, t), x)
                  ELSE FAdd(FSub(x, t), s)
         IN  SumComp(t, FAdd(c, e), Tail(xs))

\* A sum() that stops one element short.
PySumAllButLast(compensated, xs) ==
    IF compensated
    THEN SumComp(0, 0, SubSeq(xs, 1, Len(xs) - 1))
    ELSE SumNaive(0, SubSeq(xs, 1, Len(xs) - 1))

\* sum(xs) under the interpreter in use.
PySum(compensated, xs) ==
    IF compensated THEN SumComp(0, 0, xs) ELSE SumNaive(0, xs)

\* ------------------------------------------------------------------ input file
\* A CSV field as text: a number (its decimal value, in units), a date, text
\* that is neither, or nothing at all (csv.DictReader fills the missing
\* fields of a short row with None).
Num(n) == [t |-> "num", v |-> n, y |-> 0, m |-> 0, d |-> 0]
Date(yy, mm, dd) == [t |-> "date", v |-> 0, y |-> yy, m |-> mm, d |-> dd]
Text == [t |-> "text", v |-> 0, y |-> 0, m |-> 0, d |-> 0]
Missing == [t |-> "none", v |-> 0, y |-> 0, m |-> 0, d |-> 0]

Row(date, product, region, sales, expenses) ==
    [Date |-> date, Product |-> product, Region |-> region,
     Sales |-> sales, Expenses |-> expenses]

Header == <<"Date", "Product", "Region", "Sales", "Expenses">>

SampleRow(mm, product, region, sales, expenses) ==
    Row(Date(2023, mm, 1), product, region, Num(Amt(sales)), Num(Amt(expenses)))

\* The 18 rows create_sample_data writes.
sample_data ==
    << SampleRow(1, "Product A", "North", 5000, 3000),
       SampleRow(1, "Product B", "North", 4500, 2800),
       SampleRow(1, "Product C", "North", 6000, 3500),
       SampleRow(1, "Product A", "South", 5500, 3200),
       SampleRow(1, "Product B", "South", 4800, 2900),
       SampleRow(1, "Product C", "South", 6200, 3800),
       SampleRow(2, "Product A", "North", 5200, 3100),
       SampleRow(2, "Product B", "North", 4700, 2850),
       SampleRow(2, "Product C", "North", 6100, 3600),
       SampleRow(2, "Product A", "South", 5600, 3300),
       SampleRow(2, "Product B", "South", 4900, 2950),
       SampleRow(2, "Product C", "South", 6300, 3900),
       SampleRow(3, "Product A", "North", 5300, 3150),
       SampleRow(3, "Product B", "North", 4800, 2900),
       SampleRow(3, "Product C", "North", 6200, 3650),
       SampleRow(3, "Product A", "South", 5700, 3350),
       SampleRow(3, "Product B", "South", 5000, 3000),
       SampleRow(3, "Product C", "South", 6400, 3950) >>

\* A file of the file system: absent, or a header line and rows.
Absent == [exists |-> FALSE, fieldnames |-> << >>, rows |-> << >>]
File(fieldnames, rows) ==
    [exists |-> TRUE, fieldnames |-> fieldnames, rows |-> rows]

SampleFile == File(Header, sample_data)

HasColumn(fieldnames, col) == \E i \in 1..Len(fieldnames) : fieldnames[i] = col

\* ------------------------------------------------------------------ loader
\* float(text): the exception it raises, or "" when it returns.
FloatError(tok) ==
    CASE tok.t = "num" -> ""
      [] tok.t = "none" -> "TypeError"
      [] OTHER -> "ValueError"

\* float(text) of a number: the nearest float to the decimal value.
PyFloat(tok) == FRound(tok.v, 1)

\* datetime.strptime(text, '%Y-%m-%d'): the exception, or "".
StrptimeError(tok) ==
    CASE tok.t = "date" -> ""
      [] tok.t = "none" -> "TypeError"
      [] OTHER -> "ValueError"

\* The body of the conversion loop for one row: the first exception one of
\* its four statements raises, or "" and the converted row.
ConvertRow(fieldnames, row) ==
    LET err ==
          CASE ~HasColumn(fieldnames, "Sales") -> "KeyError"
            [] FloatError(row.Sales) # "" -> FloatError(row.Sales)
            [] ~HasColumn(fieldnames, "Expenses") -> "KeyError"
            [] FloatError(row.Expenses) # "" -> FloatError(row.Expenses)
            [] ~HasColumn(fieldnames, "Date") -> "KeyError"
            [] StrptimeError(row.Date) # "" -> StrptimeError(row.Date)
            [] OTHER -> ""
    IN  IF err # ""
        THEN [err |-> err, row |-> << >>]
        ELSE [err |-> "",
              row |-> << [Date |-> [y |-> row.Date.y, m |-> row.Date.m,
                                    d |-> row.Date.d],
                          Product |-> row.Product,
                          Region |-> row.Region,
                          HasProduct |-> HasColumn(fieldnames, "Product"),
                          HasRegion |-> HasColumn(fieldnames, "Region"),
                          Sales |-> PyFloat(row.Sales),
                          Expenses |-> PyFloat(row.Expenses),
                          Profit |-> FSub(PyFloat(row.Sales),
                                          PyFloat(row.Expenses))] >>]

\* What a call returns: a list, None, or an exception that propagates.
List(rows) == [kind |-> "list", rows |-> rows]
None == [kind |-> "none", rows |-> << >>]
Raise == [kind |-> "raise", rows |-> << >>]

RECURSIVE ConvertRows(_, _, _)
ConvertRows(fieldnames, rows, done) ==
    IF rows = << >>
    THEN List(done)
    ELSE LET r == ConvertRow(fieldnames, Head(rows))
         IN  CASE r.err = "" ->
                    ConvertRows(fieldnames, Tail(rows), done \o r.row)
               [] r.err \in {"ValueError", "KeyError"} -> None
               [] OTHER -> Raise

read_and_analyze_data(file) ==
    IF ~file.exists THEN None ELSE ConvertRows(file.fieldnames, file.rows, << >>)

\* ------------------------------------------------------------------ aggregation
Hundred == Amt(100)

\* row['Date'].strftime('%Y-%m') as the number YYYYMM: the order of these
\* numbers is the chronological order of the zero-padded strings.
MonthKey(date) == date.y * 100 + date.m

\* The grouping key of a record in one of the three dimensions.
KeyOf(dim, row) ==
    CASE dim = "products" -> row.Product
      [] dim = "regions" -> row.Region
      [] OTHER -> MonthKey(row.Date)

\* A dict is the sequence of its entries in insertion order.
HasKey(groups, key) == \E i \in 1..Len(groups) : groups[i].key = key
Keys(groups) == [i \in 1..Len(groups) |-> groups[i].key]

\* A grouping loop whose sales statement assigns (=) where it should add (+=).
AccumulateAssigningSales(groups, key, row) ==
    LET new == [key |-> key, sales |-> 0, expenses |-> 0, profit |-> 0,
                count |-> 0, has_avg |-> FALSE, avg_sales |-> 0,
                avg_profit |-> 0]
        gs == IF HasKey(groups, key) THEN groups ELSE Append(groups, new)
    IN  [i \in 1..Len(gs) |->
            IF gs[i].key = key
            THEN [gs[i] EXCEPT !.sales = row.Sales,
                               !.expenses = FAdd(@, row.Expenses),
                               !.profit = FAdd(@, row.Profit),
                               !.count = @ + 1]
            ELSE gs[i]]

\* One iteration of a grouping loop: create the group on first sight, then
\* add the row to its running sums.
Accumulate(groups, key, row) ==
    LET new == [key |-> key, sales |-> 0, expenses |-> 0, profit |-> 0,
                count |-> 0, has_avg |-> FALSE, avg_sales |-> 0,
                avg_profit |-> 0]
        gs == IF HasKey(groups, key) THEN groups ELSE Append(groups, new)
    IN  [i \in 1..Len(gs) |->
            IF gs[i].key = key
            THEN [gs[i] EXCEPT !.sales = FAdd(@, row.Sales),
                               !.expenses = FAdd(@, row.Expenses),
                               !.profit = FAdd(@, row.Profit),
                               !.count = @ + 1]
            ELSE gs[i]]

RECURSIVE GroupBy(_, _, _)
GroupBy(dim, data, groups) ==
    IF data = << >>
    THEN groups
    ELSE GroupBy(dim, Tail(data),
                 Accumulate(groups, KeyOf(dim, Head(data)), Head(data)))

\* The "Calculate averages" loop over one dict.
CalculateAverages(groups) ==
    [i \in 1..Len(groups) |->
        [groups[i] EXCEPT !.has_avg = TRUE,
                          !.avg_sales = FDiv(groups[i].sales, Amt(groups[i].count)),
                          !.avg_profit = FDiv(groups[i].profit, Amt(groups[i].count))]]

\* A margin guarded by "!= 0" where the code has "> 0".
ProfitMarginUnlessZero(total_profit, total_sales) ==
    IF total_sales # 0 THEN FMul(FDiv(total_profit, total_sales), Hundred) ELSE 0

ProfitMargin(total_profit, total_sales) ==
    IF total_sales > 0 THEN FMul(FDiv(total_profit, total_sales), Hundred) ELSE 0

NoAnalysis(kind) ==
    [kind |-> kind,
     overall |-> [total_sales |-> 0, total_expenses |-> 0, total_profit |-> 0,
                  profit_margin |-> 0],
     products |-> << >>, regions |-> << >>, months |-> << >>]

\* The dicts perform_analysis averages: products and regions.
AveragedDims == {"products", "regions"}

Groups(dim, data) ==
    IF dim \in AveragedDims
    THEN CalculateAverages(GroupBy(dim, data, << >>))
    ELSE GroupBy(dim, data, << >>)

\* perform_analysis(data): None for no data, KeyError when the rows lack the
\* Product or the Region column, else the analysis_results dict.
perform_analysis(compensated, data) ==
    IF data = << >>
    THEN NoAnalysis("none")
    ELSE IF ~data[1].HasProduct \/ ~data[1].HasRegion
    THEN NoAnalysis("raise")
    ELSE LET total_sales == PySum(compensated, [i \in 1..Len(data) |-> data[i].Sales])
             total_expenses ==
                 PySum(compensated, [i \in 1..Len(data) |-> data[i].Expenses])
             total_profit == FSub(total_sales, total_expenses)
         IN  [kind |-> "result",
              overall |-> [total_sales |-> total_sales,
                           total_expenses |-> total_expenses,
                           total_profit |-> total_profit,
                           profit_margin |-> ProfitMargin(total_profit, total_sales)],
              products |-> Groups("products", data),
              regions |-> Groups("regions", data),
              months |-> Groups("months", data)]

\* ------------------------------------------------------------------ bootstrap
\* A bootstrap without the os.path.exists check.
create_sample_data_always(file) == SampleFile

\* create_sample_data(filename): the file at filename afterwards.
create_sample_data(file) == IF file.exists THEN file ELSE SampleFile

\* ------------------------------------------------------------------ charts
NoImage == [exists |-> FALSE, names |-> << >>, sales |-> << >>, profits |-> << >>]

\* The image savefig writes for one dict: one bar pair or one point pair per
\* key, in the order of list(dict.keys()).
Plot(groups) ==
    [exists |-> TRUE,
     names |-> Keys(groups),
     sales |-> [i \in 1..Len(groups) |-> groups[i].sales],
     profits |-> [i \in 1..Len(groups) |-> groups[i].profit]]

\* ------------------------------------------------------------------ document
\* f"{x:,.2f}": x to the nearest hundredth, ties to even, as a count of
\* hundredths.
Format2f(x) ==
    LET a == Abs(x) * 100
        q == a \div Unit
        r == a % Unit
        n == IF 2 * r > Unit \/ (2 * r = Unit /\ q % 2 = 1) THEN q + 1 ELSE q
    IN  IF x < 0 THEN 0 - n ELSE n

\* The margin column of a table row.
Margin(stats) ==
    IF stats.sales > 0 THEN FMul(FDiv(stats.profit, stats.sales), Hundred) ELSE 0

\* The rows handed to add_table for one dict, in the order of dict.items().
TableData(groups) ==
    [i \in 1..Len(groups) |->
        [key |-> groups[i].key,
         sales |-> Format2f(groups[i].sales),
         expenses |-> Format2f(groups[i].expenses),
         profit |-> Format2f(groups[i].profit),
         margin |-> Format2f(Margin(groups[i]))]]

\* max(d.items(), key=profit) and min(...): the first entry among the equal.
MaxByProfit(groups) ==
    LET i == CHOOSE i \in 1..Len(groups) :
                /\ \A j \in 1..Len(groups) : groups[j].profit <= groups[i].profit
                /\ \A j \in 1..(i - 1) : groups[j].profit < groups[i].profit
    IN  groups[i].key

MinByProfit(groups) ==
    LET i == CHOOSE i \in 1..Len(groups) :
                /\ \A j \in 1..Len(groups) : groups[j].profit >= groups[i].profit
                /\ \A j \in 1..(i - 1) : groups[j].profit > groups[i].profit
    IN  groups[i].key

Judgement(profit_margin) ==
    IF profit_margin > Amt(20) THEN "good"
    ELSE IF profit_margin > Amt(10) THEN "satisfactory"
    ELSE "needs improvement"

NoDocument ==
    [exists |-> FALSE, summary |-> << >>, product_image |-> NoImage,
     product_table |-> << >>, region_table |-> << >>, month_image |-> NoImage,
     month_table |-> << >>, conclusion |-> << >>]

\* The exception generate_report raises before pdf.output, or "": pdf.image
\* of a file that is not there, max() or min() of an empty dict.
ReportError(r, product_png, trend_png) ==
    CASE ~product_png.exists -> "image"
      [] ~trend_png.exists -> "image"
      [] r.products = << >> -> "ValueError"
      [] r.regions = << >> -> "ValueError"
      [] OTHER -> ""

\* The document pdf.output writes.
Document(r, product_png, trend_png) ==
    [exists |-> TRUE,
     summary |-> << Format2f(r.overall.total_sales),
                    Format2f(r.overall.total_expenses),
                    Format2f(r.overall.total_profit),
                    Format2f(r.overall.profit_margin) >>,
     product_image |-> product_png,
     product_table |-> TableData(r.products),
     region_table |-> TableData(r.regions),
     month_image |-> trend_png,
     month_table |-> TableData(r.months),
     conclusion |-> << MaxByProfit(r.products), MinByProfit(r.products),
                       MaxByProfit(r.regions),
                       Judgement(r.overall.profit_margin) >>]

\* ------------------------------------------------------------------ inputs
\* Rows of the input files main is run on: well-formed rows of two months
\* (December 2022 and January 2023), and rows with a field float() or
\* strptime() rejects or that a short line leaves out.
MainDates == {Date(2023, 1, 15), Date(2022, 12, 31)}
MainKeys == {<<"Product A", "North">>, <<"Product B", "South">>}
MainRows ==
    { Row(dt, k[1], k[2], Num(Amt(s)), Num(Amt(1))) :
        dt \in MainDates, k \in MainKeys, s \in {1, 2} }
    \cup { Row(Date(2023, 1, 15), "Product A", "North", Text, Num(Amt(1))),
           Row(Date(2023, 1, 15), "Product A", "North", Num(Amt(1)), Missing),
           Row(Text, "Product A", "North", Num(Amt(1)), Num(Amt(1))),
           Row(Missing, "Product A", "North", Num(Amt(1)), Num(Amt(1))) }

MainHeaders ==
    { Header,
      <<"Date", "Product", "Region", "Expenses">>,
      <<"Date", "Region", "Sales", "Expenses">> }

SeqsUpTo(S, n) == UNION { [1..k -> S] : k \in 0..n }

MainFiles ==
    {Absent} \cup { File(h, rows) : h \in MainHeaders, rows \in SeqsUpTo(MainRows, MaxRows) }

\* Rows of the datasets perform_analysis is called on directly: amounts of
\* either sign, and one so large that adding 1 to it is rounded away.
ApiKeys ==
    { <<Date(2023, 1, 15), "Product A", "North">>,
      <<Date(2023, 2, 1), "Product B", "North">>,
      <<Date(2023, 1, 31), "Product B", "South">> }
ApiAmounts == { <<0 - 1, 1>>, <<1, 0>>, <<1, 1>>, <<2^Precision, 0>> }
ApiRows ==
    { Row(k[1], k[2], k[3], Num(Amt(a[1])), Num(Amt(a[2]))) :
        k \in ApiKeys, a \in ApiAmounts }

\* An analysis_results dict with no group at all, as a caller can build it.
EmptyAnalysis == [NoAnalysis("result") EXCEPT !.kind = "result"]

\* ------------------------------------------------------------------ state
VARIABLES
    compensated,              \* the interpreter's sum() is compensated (3.12+)
    sales_data_csv,           \* the file 'sales_data.csv'
    product_performance_png,  \* the file 'product_performance.png'
    monthly_trend_png,        \* the file 'monthly_trend.png'
    sales_report_pdf,         \* the file 'sales_report.pdf'
    pc,                       \* the statement the program is at
    data,                     \* what read_and_analyze_data returned
    analysis_results,         \* what perform_analysis returned
    exit_code,                \* the status of the process when pc = "exited"
    runs,                     \* runs of main started so far
    phases,                   \* the steps of main run so far in this run
    written                   \* the files written so far in this run

vars == <<compensated, sales_data_csv, product_performance_png, monthly_trend_png,
          sales_report_pdf, pc, data, analysis_results, exit_code, runs, phases,
          written>>

files == <<sales_data_csv, product_performance_png, monthly_trend_png,
           sales_report_pdf>>

InitCommon ==
    /\ compensated \in BOOLEAN
    /\ product_performance_png = NoImage
    /\ monthly_trend_png = NoImage
    /\ sales_report_pdf = NoDocument
    /\ exit_code = 0
    /\ phases = << >>
    /\ written = << >>

\* python report_generator.py, in a directory holding any input file or none.
Init ==
    /\ InitCommon
    /\ sales_data_csv \in MainFiles
    /\ pc = "main"
    /\ data = None
    /\ analysis_results = NoAnalysis("none")
    /\ runs = 1

\* ------------------------------------------------------------------ main
\* Step 1: create_sample_data(data_filename).
CreateSampleData ==
    /\ pc = "main"
    /\ sales_data_csv' = create_sample_data(sales_data_csv)
    /\ written' = IF sales_data_csv.exists THEN written
                  ELSE Append(written, "sales_data.csv")
    /\ phases' = Append(phases, "bootstrap")
    /\ pc' = "read"
    /\ UNCHANGED <<compensated, product_performance_png, monthly_trend_png,
                   sales_report_pdf, data, analysis_results, exit_code, runs>>

\* A main whose "if not ...:" blocks print and do not return.
AfterCallWithoutReturn(result, falsy, next) ==
    CASE result.kind = "raise" -> [pc |-> "exited", exit_code |-> 1]
      [] OTHER -> [pc |-> next, exit_code |-> 0]

\* Where main goes after a call: on with the next step, out by "return" when
\* the result is falsy, out by the exception when the call raised.
AfterCall(result, falsy, next) ==
    CASE result.kind = "raise" -> [pc |-> "exited", exit_code |-> 1]
      [] falsy -> [pc |-> "exited", exit_code |-> 0]
      [] OTHER -> [pc |-> next, exit_code |-> 0]

\* Step 2: data = read_and_analyze_data(data_filename); if not data: return.
ReadAndAnalyzeData ==
    /\ pc = "read"
    /\ LET d == read_and_analyze_data(sales_data_csv)
           to == AfterCall(d, d.rows = << >>, "analyze")
       IN  /\ data' = d
           /\ pc' = to.pc
           /\ exit_code' = to.exit_code
    /\ phases' = Append(phases, "load")
    /\ UNCHANGED <<compensated, files, analysis_results, runs, written>>

\* Step 3: analysis_results = perform_analysis(data); if not: return.
PerformAnalysis ==
    /\ pc = "analyze"
    /\ LET r == perform_analysis(compensated, data.rows)
           to == AfterCall(r, r.kind = "none", "charts")
       IN  /\ analysis_results' = r
           /\ pc' = to.pc
           /\ exit_code' = to.exit_code
    /\ phases' = Append(phases, "aggregate")
    /\ UNCHANGED <<compensated, files, data, runs, written>>

\* create_charts(analysis_results): the two savefig calls in turn; `failure`
\* names the one the backend fails (an exception that propagates), "" none.
create_charts(failure) ==
    /\ product_performance_png' =
          IF failure = "product_performance.png" THEN product_performance_png
          ELSE Plot(analysis_results.products)
    /\ monthly_trend_png' =
          IF failure = "" THEN Plot(analysis_results.months) ELSE monthly_trend_png
    /\ written' =
          CASE failure = "product_performance.png" -> written
            [] failure = "monthly_trend.png" ->
                  Append(written, "product_performance.png")
            [] OTHER -> written \o <<"product_performance.png", "monthly_trend.png">>

ChartFailures == {"", "product_performance.png", "monthly_trend.png"}

\* Step 4: create_charts(analysis_results).
CreateCharts ==
    /\ pc = "charts"
    /\ \E failure \in ChartFailures :
          /\ create_charts(failure)
          /\ pc' = IF failure = "" THEN "report" ELSE "exited"
          /\ exit_code' = IF failure = "" THEN 0 ELSE 1
    /\ phases' = Append(phases, "charts")
    /\ UNCHANGED <<compensated, sales_data_csv, sales_report_pdf, data,
                   analysis_results, runs>>

\* generate_report(analysis_results): TRUE when it returns the file name;
\* `output_ok` is whether the backend's pdf.output succeeds.
ReportReturns(output_ok) ==
    /\ output_ok
    /\ ReportError(analysis_results, product_performance_png, monthly_trend_png) = ""

generate_report(output_ok) ==
    /\ sales_report_pdf' =
          IF ReportReturns(output_ok)
          THEN Document(analysis_results, product_performance_png, monthly_trend_png)
          ELSE sales_report_pdf
    /\ written' = IF ReportReturns(output_ok)
                  THEN Append(written, "sales_report.pdf") ELSE written

\* Step 5: report_filename = generate_report(analysis_results), and the
\* closing prints.
GenerateReport ==
    /\ pc = "report"
    /\ \E output_ok \in BOOLEAN :
          /\ generate_report(output_ok)
          /\ exit_code' = IF ReportReturns(output_ok) THEN 0 ELSE 1
    /\ pc' = "exited"
    /\ phases' = Append(phases, "document")
    /\ UNCHANGED <<compensated, sales_data_csv, product_performance_png,
                   monthly_trend_png, data, analysis_results, runs>>

\* The operator runs the script again in the same directory.
RunAgain ==
    /\ pc = "exited"
    /\ runs < MaxRuns
    /\ runs' = runs + 1
    /\ pc' = "main"
    /\ data' = None
    /\ analysis_results' = NoAnalysis("none")
    /\ exit_code' = 0
    /\ phases' = << >>
    /\ written' = << >>
    /\ UNCHANGED <<compensated, files>>

Next ==
    \/ CreateSampleData
    \/ ReadAndAnalyzeData
    \/ PerformAnalysis
    \/ CreateCharts
    \/ GenerateReport
    \/ RunAgain

Spec == Init /\ [][Next]_vars

\* ------------------------------------------------------------------ direct calls
\* A script that imports the module and calls its functions itself:
\* perform_analysis on a loaded dataset and then the renderers on its result,
\* or the renderers on an analysis_results dict of its own making.
ApiData ==
    { ConvertRows(Header, rows, << >>) : rows \in SeqsUpTo(ApiRows, MaxData) }

InitApi ==
    /\ InitCommon
    /\ sales_data_csv = Absent
    /\ runs = 1
    /\ \/ /\ pc = "call perform_analysis"
          /\ data \in ApiData
          /\ analysis_results = NoAnalysis("none")
       \/ /\ pc = "call create_charts"
          /\ data = None
          /\ analysis_results = EmptyAnalysis

ApiPerformAnalysis ==
    /\ pc = "call perform_analysis"
    /\ LET r == perform_analysis(compensated, data.rows)
       IN  /\ analysis_results' = r
           /\ pc' = IF r.kind = "result" THEN "call create_charts" ELSE "exited"
           /\ exit_code' = IF r.kind = "raise" THEN 1 ELSE 0
    /\ phases' = Append(phases, "aggregate")
    /\ UNCHANGED <<compensated, files, data, runs, written>>

ApiCreateCharts ==
    /\ pc = "call create_charts"
    /\ \E failure \in ChartFailures :
          /\ create_charts(failure)
          /\ pc' = IF failure = "" THEN "call generate_report" ELSE "exited"
          /\ exit_code' = IF failure = "" THEN 0 ELSE 1
    /\ phases' = Append(phases, "charts")
    /\ UNCHANGED <<compensated, sales_data_csv, sales_report_pdf, data,
                   analysis_results, runs>>

ApiGenerateReport ==
    /\ pc = "call generate_report"
    /\ \E output_ok \in BOOLEAN :
          /\ generate_report(output_ok)
          /\ exit_code' = IF ReportReturns(output_ok) THEN 0 ELSE 1
    /\ pc' = "exited"
    /\ phases' = Append(phases, "document")
    /\ UNCHANGED <<compensated, sales_data_csv, product_performance_png,
                   monthly_trend_png, data, analysis_results, runs>>

NextApi ==
    \/ ApiPerformAnalysis
    \/ ApiCreateCharts
    \/ ApiGenerateReport

SpecApi == InitApi /\ [][NextApi]_vars

\* ------------------------------------------------------------------ properties
InSeq(seq, x) == \E i \in 1..Len(seq) : seq[i] = x
Dims == {"products", "regions", "months"}
GroupsOf(dim) == analysis_results[dim]
Analysed == analysis_results.kind = "result"

\* sum(group.sales for group in groups), as the interpreter computes it.
GroupSalesSum(groups) ==
    PySum(compensated, [i \in 1..Len(groups) |-> groups[i].sales])

RECURSIVE SumAbs(_)
SumAbs(xs) == IF xs = << >> THEN 0 ELSE Abs(Head(xs)) + SumAbs(Tail(xs))

\* Every Sales value of the dataset is a whole amount and their absolute
\* values sum to at most 2^Precision: every partial sum is then a float.
SalesSumExactly ==
    /\ \A i \in 1..Len(data.rows) : data.rows[i].Sales % Unit = 0
    /\ SumAbs([i \in 1..Len(data.rows) |-> data.rows[i].Sales]) <= Amt(2^Precision)

\* C1 (as claimed): for every non-empty dataset, in each of the three
\* dimensions the groups' sales sum to overall.total_sales.
C1_GroupSalesSumToTotal ==
    Analysed =>
        \A dim \in Dims :
            GroupSalesSum(GroupsOf(dim)) = analysis_results.overall.total_sales

\* C1 (amended): the groups' sales sum to overall.total_sales in each of the
\* three dimensions whenever every Sales value is a whole number and their
\* absolute values sum to at most 2^Precision, so that no addition rounds.
C1_GroupSalesSumToTotalWhenExact ==
    (Analysed /\ SalesSumExactly) =>
        \A dim \in Dims :
            GroupSalesSum(GroupsOf(dim)) = analysis_results.overall.total_sales

\* Three records in two product groups, summed without rounding.
C1_Witness ==
    /\ Analysed
    /\ SalesSumExactly
    /\ Len(data.rows) = 3
    /\ Len(analysis_results.products) = 2
    /\ Len(analysis_results.months) = 2
    /\ analysis_results.overall.total_sales = Amt(3)

\* (total_profit / total_sales) * 100 of the result, in float arithmetic.
MarginQuotient ==
    FMul(FDiv(analysis_results.overall.total_profit,
              analysis_results.overall.total_sales), Hundred)

C3_EveryGroupCarriesAverages ==
    Analysed =>
        \A dim \in Dims :
            \A i \in 1..Len(GroupsOf(dim)) :
                LET g == GroupsOf(dim)[i]
                IN  /\ g.count >= 1
                    /\ g.has_avg
                    /\ g.avg_sales = FDiv(g.sales, Amt(g.count))
                    /\ g.avg_profit = FDiv(g.profit, Amt(g.count))

\* C4: when the load or the aggregation yields no result, main ends with a
\* non-zero exit status.
C4_FailureExitsNonZero ==
    (/\ pc = "exited"
     /\ \/ InSeq(phases, "load") /\ data.kind = "none"
        \/ InSeq(phases, "aggregate") /\ analysis_results.kind = "none")
        => exit_code # 0

IsChronological(keys) ==
    \A i \in 1..Len(keys) : \A j \in 1..Len(keys) : i < j => keys[i] < keys[j]

\* C5: the months of the monthly line chart and of the monthly table are in
\* chronological order, whatever the order of the input rows.
C5_MonthsChronological ==
    /\ monthly_trend_png.exists => IsChronological(monthly_trend_png.names)
    /\ sales_report_pdf.exists =>
          IsChronological([i \in 1..Len(sales_report_pdf.month_table) |->
                              sales_report_pdf.month_table[i].key])

\* The run is on the sample create_sample_data wrote and has been analysed.
SampleAnalysed ==
    /\ sales_data_csv = SampleFile
    /\ InSeq(phases, "aggregate")
    /\ Analysed

\* C6 (as claimed): on the built-in sample, total_sales is 98,500.00 and
\* total_profit is total_sales minus total_expenses.
C6_SampleTotalSales98500 ==
    SampleAnalysed =>
        /\ analysis_results.overall.total_sales = Amt(98500)
        /\ analysis_results.overall.total_profit =
              analysis_results.overall.total_sales
                  - analysis_results.overall.total_expenses

\* C6 (amended): on the built-in sample, total_sales is 98,200.00 (the sum
\* of the 18 literal Sales values) and total_profit is total_sales minus
\* total_expenses (58,900.00), that is 39,300.00.
C6_SampleTotalSales98200 ==
    SampleAnalysed =>
        /\ analysis_results.overall.total_sales = Amt(98200)
        /\ analysis_results.overall.total_expenses = Amt(58900)
        /\ analysis_results.overall.total_profit = Amt(39300)
        /\ analysis_results.overall.total_profit =
              analysis_results.overall.total_sales
                  - analysis_results.overall.total_expenses

\* A run that wrote the sample, analysed it and wrote the report.
C6_Witness ==
    /\ SampleAnalysed
    /\ InSeq(written, "sales_data.csv")
    /\ InSeq(written, "sales_report.pdf")
    /\ Len(analysis_results.products) = 3
    /\ Len(analysis_results.regions) = 2
    /\ Len(analysis_results.months) = 3

\* C7: no step of any run changes the contents of an input file that exists.
C7_ExistingInputUntouched ==
    [][sales_data_csv.exists => sales_data_csv' = sales_data_csv]_vars

\* A second run has ended on an input file that is not the sample, so that
\* was there before the first.
C7_Witness ==
    /\ runs = 2
    /\ pc = "exited"
    /\ sales_data_csv.exists
    /\ sales_data_csv # SampleFile
    /\ Len(sales_data_csv.rows) > 0

\* C8: loading a file whose header lacks Sales, with or without data rows,
\* is a data error: no record sequence is returned, nothing is analysed and
\* the run writes no chart and no document.
C8_MissingSalesIsDataError ==
    (/\ sales_data_csv.exists
     /\ ~HasColumn(sales_data_csv.fieldnames, "Sales")
     /\ InSeq(phases, "load"))
        => /\ data.kind = "none"
           /\ ~Analysed
           /\ ~InSeq(written, "product_performance.png")
           /\ ~InSeq(written, "monthly_trend.png")
           /\ ~InSeq(written, "sales_report.pdf")

PhaseOrder == <<"bootstrap", "load", "aggregate", "charts", "document">>

Position(seq, x) == CHOOSE i \in 1..Len(seq) : seq[i] = x

Loaded == data.kind = "list" /\ data.rows # << >>

\* C9: the phases of a run occur in the order bootstrap, load, aggregate,
\* charts, document; the charts are written only once the aggregation has
\* produced a result, the document only after both charts, and a run whose
\* load or aggregation failed writes neither chart nor document.
C9_PhasesInStrictOrder ==
    /\ Len(phases) <= Len(PhaseOrder)
    /\ \A i \in 1..Len(phases) : phases[i] = PhaseOrder[i]
    /\ (InSeq(written, "product_performance.png") \/ InSeq(written, "monthly_trend.png"))
          => InSeq(phases, "aggregate") /\ Analysed
    /\ InSeq(written, "sales_report.pdf")
          => /\ InSeq(written, "product_performance.png")
             /\ InSeq(written, "monthly_trend.png")
             /\ Position(written, "product_performance.png")
                   < Position(written, "sales_report.pdf")
             /\ Position(written, "monthly_trend.png")
                   < Position(written, "sales_report.pdf")
    /\ ((InSeq(phases, "load") /\ ~Loaded) \/ (InSeq(phases, "aggregate") /\ ~Analysed))
          => /\ ~InSeq(written, "product_performance.png")
             /\ ~InSeq(written, "monthly_trend.png")
             /\ ~InSeq(written, "sales_report.pdf")

\* A run that went through all five phases and wrote the three outputs.
C9_Witness ==
    /\ pc = "exited"
    /\ phases = PhaseOrder
    /\ InSeq(written, "product_performance.png")
    /\ InSeq(written, "monthly_trend.png")
    /\ InSeq(written, "sales_report.pdf")

\* C10: given an analysis_results with zero products, create_charts writes
\* no product chart and generate_report writes no document: both fail.
C10_ZeroProductsFails ==
    (Analysed /\ analysis_results.products = << >>)
        => /\ ~InSeq(written, "product_performance.png")
           /\ ~InSeq(written, "sales_report.pdf")
           /\ InSeq(phases, "charts") => (pc = "exited" /\ exit_code # 0)

====
